---- MODULE Spec2Model ----
(***************************************************************************)
(* Model of topsql/scraper.go: the Scraper (a cancellation scope plus a    *)
(* drain loop) and its reconnecting stream, backoffScrape.                 *)
(*                                                                         *)
(* One sequential control flow runs the drain loop; pc is its position.    *)
(* The blocking operations (dial, Subscribe, Recv, the wait of the retry   *)
(* driver) are steps of their own, so that a cancellation, which comes     *)
(* from another goroutine, can fall between any two of them.               *)
(*                                                                         *)
(* Two drivers are modelled:                                               *)
(*   Spec        Scraper.Run drives the stream (the program as shipped);   *)
(*   SpecDirect  a caller inside the package drives a backoffScrape        *)
(*               directly: scrape and close() in any order, also after a   *)
(*               terminal result, with any component kind.                 *)
(* utils.WithRetryBackoff is not part of the source at hand; it is         *)
(* modelled from the written contract of the backoff executor.             *)
(***************************************************************************)
EXTENDS Integers, Sequences, FiniteSets, TLC

\* ------------------------------------------------------------------ bounds
\* transport connections the network lets the stream establish
MaxConns == 3
\* records the remote side sends over all connections
MaxRecords == 3
\* scrape calls the direct caller makes
MaxCalls == 3

\* ------------------------------------------------------- program constants
\* a retry budget counted one too high
maxRetryTimes_plusOne == 8 + 1

\* newBackoffScrape: maxRetryTimes
maxRetryTimes == 8

\* --------------------------------------------------------------- values
Kinds == {"TiDB", "TiKV", "Other"}
Recognized == {"TiDB", "TiKV"}

\* a nil *grpc.ClientConn
NilConn == 0
\* a nil stream interface; a stream is named by its connection and its kind
NoStream == [conn |-> 0, kind |-> "none"]
\* the three shapes of an interface{} record: the nil interface, an interface
\* holding a nil pointer of a kind's record type, and an interface holding a
\* record
NilRecord == [tag |-> "nil", kind |-> "none", id |-> 0]
TypedNil(k) == [tag |-> "typednil", kind |-> k, id |-> 0]
Rec(k, i) == [tag |-> "rec", kind |-> k, id |-> i]

ConnIds == 1..MaxConns

VARIABLES
    kind,          \* component.Kind of the Scraper and of its backoffScrape
    cancelled,     \* ctx.Done() is closed
    pc,            \* position of the control flow
    wrapper,       \* which of scrapeTiDBRecord / scrapeTiKVRecord is the caller
    conn,          \* bo.conn
    client,        \* bo.client ("none" is nil)
    stream,        \* bo.stream
    retried,       \* attempt index of the retry driver
    record,        \* the named result of backoffScrape / the result of scrape
    boOk,          \* how the retry driver ended: none, success, exhausted, cancelled
    calls,         \* attempt indices the retry driver has invoked in this call
    waits,         \* waits the retry driver has completed in this call
    dials,         \* dial calls made in this call
    nextConn,      \* connections established so far
    open,          \* connections established and not yet closed
    closeCount,    \* how often conn.Close() ran on each connection
    failed,        \* connections whose stream has returned a read error
    wire,          \* records read successfully from the wire, in order
    delivered,     \* records the caller got from scrape*Record, in order
    lastRet,       \* what the last scrape*Record call returned: none, record, terminal
    lastCall,      \* the last backoffScrape method to complete: none, scrape, close
    ncalls,        \* scrape calls made so far
    ioAfterCancel, \* a dial, Subscribe or Recv was started after cancellation
    staleRead,     \* a Recv was started on a stream that had already failed
    down           \* what the last IsDown call returned: none, true, false

boState == <<conn, client, stream>>
connLog == <<nextConn, open, closeCount, failed>>
execState == <<retried, record, boOk, calls, waits, dials>>
history == <<wire, delivered, lastRet, lastCall, ncalls, ioAfterCancel, staleRead>>
vars == <<kind, cancelled, pc, wrapper, boState, connLog, execState, history, down>>

\* ------------------------------------------------------------ construction
\* NewScraper followed by nothing else: the token is live, no stream exists.
InitCommon ==
    /\ kind \in Kinds
    /\ cancelled = FALSE
    /\ wrapper = "none"
    /\ conn = NilConn
    /\ client = "none"
    /\ stream = NoStream
    /\ retried = 0
    /\ record = NilRecord
    /\ boOk = "none"
    /\ calls = <<>>
    /\ waits = 0
    /\ dials = 0
    /\ nextConn = 0
    /\ open = {}
    /\ closeCount = [c \in ConnIds |-> 0]
    /\ failed = {}
    /\ wire = <<>>
    /\ delivered = <<>>
    /\ lastRet = "none"
    /\ lastCall = "none"
    /\ ncalls = 0
    /\ ioAfterCancel = FALSE
    /\ staleRead = FALSE
    /\ down = "none"

Init ==
    /\ InitCommon
    /\ pc = "idle"

\* newBackoffScrape called by a caller inside the package
InitDirect ==
    /\ InitCommon
    /\ pc = "ready"

\* ------------------------------------------------------------ cancellation
\* Scraper.Close: s.cancel()
Close ==
    /\ cancelled' = TRUE
    /\ UNCHANGED <<down, kind, pc, wrapper, boState, connLog, execState, history>>

\* the parent context of NewScraper's context.WithCancel is cancelled
ParentCancel ==
    /\ ~cancelled
    /\ cancelled' = TRUE
    /\ UNCHANGED <<down, kind, pc, wrapper, boState, connLog, execState, history>>

\* an IsDown whose two cases are exchanged
IsDown_inverted == ~cancelled

\* Scraper.IsDown
IsDown == cancelled

\* some goroutine calls IsDown and keeps what it returned
IsDownCall ==
    /\ down' = IF IsDown THEN "true" ELSE "false"
    /\ UNCHANGED <<kind, cancelled, pc, wrapper, boState, connLog, execState, history>>

\* ------------------------------------------------------------ the stream
\* conn.Close() on connection c
connClose(c) ==
    /\ open' = open \ {c}
    /\ closeCount' = [closeCount EXCEPT ![c] = IF @ < 2 THEN @ + 1 ELSE @]
    /\ UNCHANGED <<nextConn, failed>>

\* backoffScrape.close forgetting the connection without closing it
close_leaksConn ==
    IF conn # NilConn
      THEN /\ conn' = NilConn
           /\ client' = "none"
           /\ stream' = NoStream
           /\ UNCHANGED connLog
      ELSE UNCHANGED <<boState, connLog>>

\* backoffScrape.close with the fields left as they were
close_keepsFields ==
    /\ IF conn # NilConn
         THEN connClose(conn)
         ELSE UNCHANGED connLog
    /\ UNCHANGED boState

\* backoffScrape.close
close ==
    IF conn # NilConn
      THEN /\ connClose(conn)
           /\ conn' = NilConn
           /\ client' = "none"
           /\ stream' = NoStream
      ELSE UNCHANGED <<boState, connLog>>

\* the retry driver starts: backoffScrape calls utils.WithRetryBackoff, whose
\* first act is attempt(0)
enterBackoff ==
    /\ retried' = 0
    /\ record' = NilRecord
    /\ boOk' = "none"
    /\ calls' = <<>>
    /\ waits' = 0
    /\ dials' = 0
    /\ pc' = "attempt"

\* the retry driver after attempt(retried) has returned ok
WithRetryBackoff(ok) ==
    /\ UNCHANGED <<retried, calls, waits>>
    /\ IF ok
         THEN pc' = "ret" /\ boOk' = "success"
         ELSE IF retried + 1 < maxRetryTimes
                THEN pc' = "wait" /\ boOk' = boOk
                ELSE pc' = "ret" /\ boOk' = "exhausted"

\* a wait that does not look at the token
WithRetryBackoffWait_deaf ==
    /\ pc = "wait"
    /\ retried' = retried + 1
    /\ waits' = waits + 1
    /\ pc' = "attempt"
    /\ UNCHANGED <<down, kind, cancelled, wrapper, boState, connLog, record, boOk,
                   calls, dials, history>>

\* the wait between two attempts: ended by the token or by the timer
WithRetryBackoffWait ==
    /\ pc = "wait"
    /\ IF cancelled
         THEN /\ pc' = "ret"
              /\ boOk' = "cancelled"
              /\ UNCHANGED <<retried, waits>>
         ELSE /\ retried' = retried + 1
              /\ waits' = waits + 1
              /\ pc' = "attempt"
              /\ boOk' = boOk
    /\ UNCHANGED <<down, kind, cancelled, wrapper, boState, connLog, record,
                   calls, dials, history>>

\* the body of scrape once the caller has entered it
scrapeBody ==
    IF stream # NoStream /\ stream.kind \in Recognized
      THEN /\ pc' = "recv"
           /\ record' = NilRecord
           /\ boOk' = "none"
           /\ calls' = <<>>
           /\ waits' = 0
           /\ dials' = 0
           /\ retried' = retried
      ELSE enterBackoff

\* whether a Recv on stream s can still yield a record
alive(s) == s.conn \in open /\ s.conn \notin failed /\ ~cancelled

\* scrape: s.Recv() on the stream held in bo.stream
scrapeRecv ==
    /\ pc = "recv"
    /\ ioAfterCancel' = (ioAfterCancel \/ cancelled)
    /\ staleRead' = (staleRead \/ stream.conn \in failed)
    /\ \E ok \in BOOLEAN :
         /\ ok => (alive(stream) /\ Len(wire) < MaxRecords)
         /\ IF ok
              THEN /\ record' = Rec(stream.kind, Len(wire) + 1)
                   /\ wire' = Append(wire, Rec(stream.kind, Len(wire) + 1))
                   /\ pc' = "ret"
                   /\ UNCHANGED <<retried, boOk, calls, waits, dials, failed>>
              ELSE /\ failed' = failed \cup {stream.conn}
                   /\ wire' = wire
                   /\ enterBackoff
    /\ UNCHANGED <<down, kind, cancelled, wrapper, boState, nextConn, open, closeCount,
                   delivered, lastRet, lastCall, ncalls>>

\* a teardown that clears bo.conn and forgets bo.client and bo.stream
attemptTeardown_connOnly ==
    /\ pc = "attempt"
    /\ calls' = Append(calls, retried)
    /\ IF conn # NilConn
         THEN /\ connClose(conn)
              /\ conn' = NilConn
              /\ UNCHANGED <<client, stream>>
         ELSE UNCHANGED <<boState, connLog>>
    /\ pc' = "dial"
    /\ UNCHANGED <<down, kind, cancelled, wrapper, retried, record, boOk, waits, dials,
                   history>>

\* an attempt that dials without tearing anything down
attemptTeardown_skips ==
    /\ pc = "attempt"
    /\ calls' = Append(calls, retried)
    /\ UNCHANGED <<boState, connLog>>
    /\ pc' = "dial"
    /\ UNCHANGED <<down, kind, cancelled, wrapper, retried, record, boOk, waits, dials,
                   history>>

\* the attempt function is entered: stale connection state is torn down
attemptTeardown ==
    /\ pc = "attempt"
    /\ calls' = Append(calls, retried)
    /\ IF conn # NilConn
         THEN /\ connClose(conn)
              /\ conn' = NilConn
              /\ client' = "none"
              /\ stream' = NoStream
         ELSE UNCHANGED <<boState, connLog>>
    /\ pc' = "dial"
    /\ UNCHANGED <<down, kind, cancelled, wrapper, retried, record, boOk, waits, dials,
                   history>>

\* an attempt whose TiKV branch builds the TiDB client
attemptDial_alwaysTiDB ==
    /\ pc = "dial"
    /\ dials' = dials + 1
    /\ ioAfterCancel' = (ioAfterCancel \/ cancelled)
    /\ \E ok \in BOOLEAN :
         /\ ok => (~cancelled /\ nextConn < MaxConns)
         /\ IF ok
              THEN /\ nextConn' = nextConn + 1
                   /\ open' = open \cup {nextConn + 1}
                   /\ conn' = nextConn + 1
                   /\ IF kind \in Recognized
                        THEN /\ client' = "TiDB"
                             /\ pc' = "subscribe"
                             /\ UNCHANGED <<retried, boOk, calls, waits>>
                        ELSE /\ client' = client
                             /\ WithRetryBackoff(TRUE)
              ELSE /\ UNCHANGED <<nextConn, open, conn, client>>
                   /\ WithRetryBackoff(FALSE)
    /\ UNCHANGED <<down, kind, cancelled, wrapper, stream, closeCount, failed, record,
                   wire, delivered, lastRet, lastCall, ncalls, staleRead>>

\* an attempt that answers true when the dial failed, which ends the retries
attemptDial_failureEndsRetry ==
    /\ pc = "dial"
    /\ dials' = dials + 1
    /\ ioAfterCancel' = (ioAfterCancel \/ cancelled)
    /\ \E ok \in BOOLEAN :
         /\ ok => (~cancelled /\ nextConn < MaxConns)
         /\ IF ok
              THEN /\ nextConn' = nextConn + 1
                   /\ open' = open \cup {nextConn + 1}
                   /\ conn' = nextConn + 1
                   /\ IF kind \in Recognized
                        THEN /\ client' = kind
                             /\ pc' = "subscribe"
                             /\ UNCHANGED <<retried, boOk, calls, waits>>
                        ELSE /\ client' = client
                             /\ WithRetryBackoff(TRUE)
              ELSE /\ UNCHANGED <<nextConn, open, conn, client>>
                   /\ WithRetryBackoff(TRUE)
    /\ UNCHANGED <<down, kind, cancelled, wrapper, stream, closeCount, failed, record,
                   wire, delivered, lastRet, lastCall, ncalls, staleRead>>

\* an attempt that answers false for a kind it does not know
attemptDial_defaultFails ==
    /\ pc = "dial"
    /\ dials' = dials + 1
    /\ ioAfterCancel' = (ioAfterCancel \/ cancelled)
    /\ \E ok \in BOOLEAN :
         /\ ok => (~cancelled /\ nextConn < MaxConns)
         /\ IF ok
              THEN /\ nextConn' = nextConn + 1
                   /\ open' = open \cup {nextConn + 1}
                   /\ conn' = nextConn + 1
                   /\ IF kind \in Recognized
                        THEN /\ client' = kind
                             /\ pc' = "subscribe"
                             /\ UNCHANGED <<retried, boOk, calls, waits>>
                        ELSE /\ client' = client
                             /\ WithRetryBackoff(FALSE)
              ELSE /\ UNCHANGED <<nextConn, open, conn, client>>
                   /\ WithRetryBackoff(FALSE)
    /\ UNCHANGED <<down, kind, cancelled, wrapper, stream, closeCount, failed, record,
                   wire, delivered, lastRet, lastCall, ncalls, staleRead>>

\* dial, then bo.conn = conn and the switch on the component kind
attemptDial ==
    /\ pc = "dial"
    /\ dials' = dials + 1
    /\ ioAfterCancel' = (ioAfterCancel \/ cancelled)
    /\ \E ok \in BOOLEAN :
         /\ ok => (~cancelled /\ nextConn < MaxConns)
         /\ IF ok
              THEN /\ nextConn' = nextConn + 1
                   /\ open' = open \cup {nextConn + 1}
                   /\ conn' = nextConn + 1
                   /\ IF kind \in Recognized
                        THEN /\ client' = kind
                             /\ pc' = "subscribe"
                             /\ UNCHANGED <<retried, boOk, calls, waits>>
                        ELSE /\ client' = client
                             /\ WithRetryBackoff(TRUE)
              ELSE /\ UNCHANGED <<nextConn, open, conn, client>>
                   /\ WithRetryBackoff(FALSE)
    /\ UNCHANGED <<down, kind, cancelled, wrapper, stream, closeCount, failed, record,
                   wire, delivered, lastRet, lastCall, ncalls, staleRead>>

\* client.Subscribe(bo.ctx, ...), then bo.stream = stream
attemptSubscribe ==
    /\ pc = "subscribe"
    /\ ioAfterCancel' = (ioAfterCancel \/ cancelled)
    /\ \E ok \in BOOLEAN :
         /\ ok => (~cancelled /\ conn \in open)
         /\ IF ok
              THEN /\ stream' = [conn |-> conn, kind |-> client]
                   /\ pc' = "attemptRecv"
                   /\ UNCHANGED <<retried, boOk, calls, waits>>
              ELSE /\ stream' = stream
                   /\ WithRetryBackoff(FALSE)
    /\ UNCHANGED <<down, kind, cancelled, wrapper, conn, client, connLog, record, dials,
                   wire, delivered, lastRet, lastCall, ncalls, staleRead>>

\* the attempt's Recv with its result kept in a variable of the closure
\* (record, err := ...), so that the named result is never set
attemptRecv_shadowed ==
    /\ pc = "attemptRecv"
    /\ ioAfterCancel' = (ioAfterCancel \/ cancelled)
    /\ staleRead' = (staleRead \/ stream.conn \in failed)
    /\ record' = record
    /\ \E ok \in BOOLEAN :
         /\ ok => (alive(stream) /\ Len(wire) < MaxRecords)
         /\ IF ok
              THEN /\ wire' = Append(wire, Rec(stream.kind, Len(wire) + 1))
                   /\ failed' = failed
                   /\ WithRetryBackoff(TRUE)
              ELSE /\ wire' = wire
                   /\ failed' = failed \cup {stream.conn}
                   /\ WithRetryBackoff(FALSE)
    /\ UNCHANGED <<down, kind, cancelled, wrapper, boState, nextConn, open, closeCount,
                   dials, delivered, lastRet, lastCall, ncalls>>

\* the attempt's Recv reporting failure to the retry driver also when it got
\* a record
attemptRecv_returnsFalse ==
    /\ pc = "attemptRecv"
    /\ ioAfterCancel' = (ioAfterCancel \/ cancelled)
    /\ staleRead' = (staleRead \/ stream.conn \in failed)
    /\ \E ok \in BOOLEAN :
         /\ ok => (alive(stream) /\ Len(wire) < MaxRecords)
         /\ IF ok
              THEN /\ record' = Rec(stream.kind, Len(wire) + 1)
                   /\ wire' = Append(wire, Rec(stream.kind, Len(wire) + 1))
                   /\ failed' = failed
              ELSE /\ record' = TypedNil(stream.kind)
                   /\ wire' = wire
                   /\ failed' = failed \cup {stream.conn}
    /\ WithRetryBackoff(FALSE)
    /\ UNCHANGED <<down, kind, cancelled, wrapper, boState, nextConn, open, closeCount,
                   dials, delivered, lastRet, lastCall, ncalls>>

\* record, err = stream.Recv() inside the attempt
attemptRecv ==
    /\ pc = "attemptRecv"
    /\ ioAfterCancel' = (ioAfterCancel \/ cancelled)
    /\ staleRead' = (staleRead \/ stream.conn \in failed)
    /\ \E ok \in BOOLEAN :
         /\ ok => (alive(stream) /\ Len(wire) < MaxRecords)
         /\ IF ok
              THEN /\ record' = Rec(stream.kind, Len(wire) + 1)
                   /\ wire' = Append(wire, Rec(stream.kind, Len(wire) + 1))
                   /\ failed' = failed
                   /\ WithRetryBackoff(TRUE)
              ELSE /\ record' = TypedNil(stream.kind)
                   /\ wire' = wire
                   /\ failed' = failed \cup {stream.conn}
                   /\ WithRetryBackoff(FALSE)
    /\ UNCHANGED <<down, kind, cancelled, wrapper, boState, nextConn, open, closeCount,
                   dials, delivered, lastRet, lastCall, ncalls>>

\* scrapeTiDBRecord / scrapeTiKVRecord: what wrapper w makes of scrape's
\* result r. A non-nil interface of the wrapper's type is returned as the
\* pointer it holds, which is nil when the interface holds a nil pointer.
scrapeRecord(w, r) ==
    IF r.tag # "nil"
      THEN IF r.kind = w
             THEN IF r.tag = "rec" THEN r ELSE NilRecord
             ELSE NilRecord
      ELSE NilRecord

\* a dispatch whose default case drains as for TiDB
Run_defaultsToTiDB ==
    /\ pc = "idle"
    /\ IF kind \in Recognized
         THEN pc' = "loop" /\ wrapper' = kind
         ELSE pc' = "loop" /\ wrapper' = "TiDB"
    /\ UNCHANGED <<down, kind, cancelled, boState, connLog, execState, history>>

\* ---------------------------------------------------------- Scraper.Run
\* Run: the dispatch on the component kind; scrapeTiDB / scrapeTiKV create
\* the stream and register its release
Run ==
    /\ pc = "idle"
    /\ IF kind \in Recognized
         THEN pc' = "loop" /\ wrapper' = kind
         ELSE pc' = "panicked" /\ wrapper' = wrapper
    /\ UNCHANGED <<down, kind, cancelled, boState, connLog, execState, history>>

\* one iteration of the drain loop calls bo.scrape*Record, which calls scrape
scrapeCall ==
    /\ pc = "loop"
    /\ ncalls' = ncalls + 1
    /\ scrapeBody
    /\ UNCHANGED <<down, kind, cancelled, wrapper, boState, connLog, wire, delivered,
                   lastRet, lastCall, ioAfterCancel, staleRead>>

\* a drain loop that returns without releasing the stream
scrapeReturn_noDefer ==
    /\ pc = "ret"
    /\ wrapper \in Recognized
    /\ LET res == scrapeRecord(wrapper, record) IN
         IF res = NilRecord
           THEN /\ pc' = "done"
                /\ lastRet' = "terminal"
                /\ lastCall' = "scrape"
                /\ UNCHANGED <<boState, connLog, delivered>>
           ELSE /\ pc' = "loop"
                /\ lastRet' = "record"
                /\ lastCall' = "scrape"
                /\ delivered' = Append(delivered, res)
                /\ UNCHANGED <<boState, connLog>>
    /\ UNCHANGED <<down, kind, cancelled, wrapper, execState, wire, ncalls,
                   ioAfterCancel, staleRead>>

\* a drain loop that also returns once it has got a record
scrapeReturn_stopsAfterRecord ==
    /\ pc = "ret"
    /\ wrapper \in Recognized
    /\ LET res == scrapeRecord(wrapper, record) IN
         IF res = NilRecord
           THEN /\ pc' = "done"
                /\ lastRet' = "terminal"
                /\ lastCall' = "close"
                /\ close
                /\ delivered' = delivered
           ELSE /\ pc' = "done"
                /\ lastRet' = "record"
                /\ lastCall' = "close"
                /\ close
                /\ delivered' = Append(delivered, res)
    /\ UNCHANGED <<down, kind, cancelled, wrapper, execState, wire, ncalls,
                   ioAfterCancel, staleRead>>

\* a drain loop that fires the token when it returns
scrapeReturn_cancels ==
    /\ pc = "ret"
    /\ wrapper \in Recognized
    /\ LET res == scrapeRecord(wrapper, record) IN
         IF res = NilRecord
           THEN /\ pc' = "done"
                /\ lastRet' = "terminal"
                /\ lastCall' = "close"
                /\ close
                /\ delivered' = delivered
                /\ cancelled' = TRUE
           ELSE /\ pc' = "loop"
                /\ lastRet' = "record"
                /\ lastCall' = "scrape"
                /\ delivered' = Append(delivered, res)
                /\ UNCHANGED <<boState, connLog, cancelled>>
    /\ UNCHANGED <<down, kind, wrapper, execState, wire, ncalls,
                   ioAfterCancel, staleRead>>

\* the call returns to the drain loop: nil ends the loop and runs the
\* deferred bo.close(), a record is counted and the loop goes on
scrapeReturn ==
    /\ pc = "ret"
    /\ wrapper \in Recognized
    /\ LET res == scrapeRecord(wrapper, record) IN
         IF res = NilRecord
           THEN /\ pc' = "done"
                /\ lastRet' = "terminal"
                /\ lastCall' = "close"
                /\ close
                /\ delivered' = delivered
           ELSE /\ pc' = "loop"
                /\ lastRet' = "record"
                /\ lastCall' = "scrape"
                /\ delivered' = Append(delivered, res)
                /\ UNCHANGED <<boState, connLog>>
    /\ UNCHANGED <<down, kind, cancelled, wrapper, execState, wire, ncalls,
                   ioAfterCancel, staleRead>>

\* ------------------------------------------------------- the direct caller
\* the wrappers a caller of a stream of kind k uses
WrappersOf(k) == IF k \in Recognized THEN {k} ELSE Recognized

\* a caller inside the package calls bo.scrapeTiDBRecord / bo.scrapeTiKVRecord
directCall ==
    /\ pc = "ready"
    /\ ncalls < MaxCalls
    /\ ncalls' = ncalls + 1
    /\ wrapper' \in WrappersOf(kind)
    /\ scrapeBody
    /\ UNCHANGED <<down, kind, cancelled, boState, connLog, wire, delivered, lastRet,
                   lastCall, ioAfterCancel, staleRead>>

\* the call returns to the direct caller
directReturn ==
    /\ pc = "ret"
    /\ pc' = "ready"
    /\ lastCall' = "scrape"
    /\ LET res == scrapeRecord(wrapper, record) IN
         IF res = NilRecord
           THEN lastRet' = "terminal" /\ delivered' = delivered
           ELSE lastRet' = "record" /\ delivered' = Append(delivered, res)
    /\ UNCHANGED <<down, kind, cancelled, wrapper, boState, connLog, execState, wire,
                   ncalls, ioAfterCancel, staleRead>>

\* a caller inside the package calls bo.close()
directClose ==
    /\ pc = "ready"
    /\ lastCall' = "close"
    /\ close
    /\ UNCHANGED <<down, kind, cancelled, pc, wrapper, execState, wire, delivered,
                   lastRet, ncalls, ioAfterCancel, staleRead>>

\* ------------------------------------------------------- specifications
\* the steps of the stream and of the retry driver, common to both drivers
StreamNext ==
    \/ scrapeRecv
    \/ attemptTeardown
    \/ attemptDial
    \/ attemptSubscribe
    \/ attemptRecv
    \/ WithRetryBackoffWait

\* the steps of the goroutine that runs Scraper.Run
RunNext ==
    \/ Run
    \/ scrapeCall
    \/ scrapeReturn
    \/ StreamNext

Next ==
    \/ RunNext
    \/ Close
    \/ ParentCancel
    \/ IsDownCall

Spec == Init /\ [][Next]_vars

\* the goroutine of Run is scheduled as long as it can take a step; Close
\* and the parent's cancellation may never happen
FairSpec == Init /\ [][Next]_vars /\ WF_vars(RunNext)

NextDirect ==
    \/ directCall
    \/ directReturn
    \/ directClose
    \/ StreamNext
    \/ Close
    \/ ParentCancel
    \/ IsDownCall

SpecDirect == InitDirect /\ [][NextDirect]_vars

\* ------------------------------------------------------------- claims
AllOrNothing ==
    \/ conn # NilConn /\ client # "none" /\ stream # NoStream
    \/ conn = NilConn /\ client = "none" /\ stream = NoStream

\* C1 as stated: wherever the stream is, outside the two steps in which a
\* successful attempt fills the fields one after the other, connection, client
\* and stream are all present or all absent.
C1_AllOrNothing ==
    pc \notin {"subscribe", "attemptRecv"} => AllOrNothing

\* C1, amended: a stream is present only with its client and its connection, a
\* client only with its connection, and the stream held is the one of the
\* connection held; between two calls of the drain loop and once Run has
\* returned the three fields are all present or all absent. Inside a retry
\* sequence, and at its return, the connection and client of a failed
\* subscribe stay in place without a stream.
C1_ConnectionOwnsState ==
    /\ stream # NoStream =>
          client # "none" /\ conn # NilConn /\ stream.conn = conn /\ stream.kind = client
    /\ client # "none" => conn # NilConn
    /\ pc \in {"idle", "loop", "recv", "done", "panicked"} => AllOrNothing
    /\ pc \in {"idle", "done", "panicked"} => conn = NilConn

\* a subscribe failed: the retry driver waits with a connection and a client
\* but no stream
C1_Witness ==
    pc = "wait" /\ conn # NilConn /\ client # "none" /\ stream = NoStream

\* C2: no Recv is ever started on a stream handle that has already returned a
\* read error.
C2_NoStaleRead == ~staleRead

\* C3: the records the drain loop got are the records read from the wire, in
\* order, none twice and none dropped; while a call is returning, at most the
\* one record it carries is still on its way.
C3_DeliveredIsWire ==
    /\ pc # "ret" => delivered = wire
    /\ pc = "ret" =>
          \/ delivered = wire
          \/ record.tag = "rec" /\ wire = Append(delivered, record)
    /\ \A i \in 1..Len(wire) : wire[i].id = i

\* R1 and R2 came from the first connection, its stream failed, and the read
\* inside the successful reconnect attempt brought R3
C3_Witness ==
    /\ pc = "loop"
    /\ Len(delivered) = 3
    /\ failed = {1}
    /\ conn = 2
    /\ boOk = "success"
    /\ wire[3] = record

\* C4: the retry driver never invokes the attempt function more than 8 times
\* in one call; when it gives up for exhaustion it has invoked attempts
\* 0..7, each with one dial, and the call returns terminal; a call whose retry
\* driver failed while the token had not fired failed by exhaustion.
C4_ExhaustionAfterEightAttempts ==
    /\ Len(calls) <= 8
    /\ dials <= 8
    /\ boOk = "exhausted" =>
          /\ calls = <<0, 1, 2, 3, 4, 5, 6, 7>>
          /\ dials = 8
          /\ pc \in {"ret", "done"}
          /\ pc = "ret" => scrapeRecord(wrapper, record) = NilRecord
          /\ pc = "done" => lastRet = "terminal"
    /\ (pc = "ret" /\ calls # <<>> /\ boOk # "success" /\ ~cancelled) =>
          boOk = "exhausted"

\* every attempt failed, the token never fired, and the retry driver gave up
C4_Witness ==
    pc = "ret" /\ boOk = "exhausted" /\ ~cancelled /\ dials = 8

\* C5: when the retry driver reports success after k failed attempts it has
\* invoked attempts 0..k in this order, k + 1 in all, with one wait per
\* failure and none when attempt 0 succeeded; an attempt that obtained a
\* record makes the driver report success.
C5_SuccessAfterKFailures ==
    /\ boOk = "success" =>
          /\ retried < maxRetryTimes
          /\ Len(calls) = retried + 1
          /\ \A i \in 1..Len(calls) : calls[i] = i - 1
          /\ dials = retried + 1
          /\ waits = retried
    /\ (pc = "ret" /\ calls # <<>> /\ record.tag = "rec") => boOk = "success"

\* attempts 0, 1 and 2 failed and attempt 3 succeeded
C5_Witness ==
    pc = "ret" /\ boOk = "success" /\ retried = 3 /\ record.tag = "rec"

\* C6: from a wait during which the token has fired the retry driver only
\* returns, reporting failure, with no further attempt and no further dial;
\* a call ended this way returns terminal.
C6_CancelledWaitEndsCall ==
    /\ [](boOk = "cancelled" =>
            /\ cancelled
            /\ pc \in {"ret", "done"}
            /\ Len(calls) = waits + 1
            /\ pc = "ret" => scrapeRecord(wrapper, record) = NilRecord)
    /\ [][(pc = "wait" /\ cancelled) =>
            /\ pc' \in {"wait", "ret"}
            /\ pc' = "ret" => boOk' = "cancelled"
            /\ calls' = calls
            /\ dials' = dials
            /\ UNCHANGED <<boState, connLog, wire>>]_vars

\* the token fired in the wait after the second attempt: the third never ran
C6_Witness ==
    pc = "ret" /\ boOk = "cancelled" /\ calls = <<0, 1>> /\ ~ioAfterCancel

\* the positions at which Run is in progress
InRun == {"loop", "recv", "attempt", "dial", "subscribe", "attemptRecv", "wait", "ret"}

\* C7: once the token has fired while Run is in progress, Run returns, and
\* then the stream holds no connection state and no connection is open.
C7_CancelledRunReturns ==
    (cancelled /\ pc \in InRun)
        ~> (pc = "done" /\ conn = NilConn /\ client = "none" /\ stream = NoStream
              /\ open = {})

\* Run has returned after a cancelled wait, having opened connections
C7_Witness ==
    /\ pc = "done"
    /\ boOk = "cancelled"
    /\ nextConn = 2
    /\ open = {}
    /\ conn = NilConn

\* C8: no dial, Subscribe or Recv is started once the token has fired.
C8_NoIOAfterCancel == ~ioAfterCancel

\* C9: when the drain loop has returned, close() has run, the stream holds no
\* connection state and no connection is open; a Run that aborts at dispatch
\* has created no stream; the step that fires the token leaves the stream's
\* fields and its connections as they are.
C9_ReleasedOnEveryExit ==
    /\ [](pc = "done" =>
            /\ lastCall = "close"
            /\ conn = NilConn /\ client = "none" /\ stream = NoStream
            /\ open = {}
            /\ \A c \in 1..nextConn : closeCount[c] = 1)
    /\ [](pc = "panicked" => nextConn = 0 /\ conn = NilConn)
    /\ [][cancelled' # cancelled => UNCHANGED <<boState, connLog>>]_vars

\* the loop ended by exhaustion while a connection was still held
C9_Witness ==
    /\ pc = "done"
    /\ boOk = "exhausted"
    /\ ~cancelled
    /\ nextConn = 3
    /\ closeCount[3] = 1

\* C10: no connection is closed twice; after close() the stream holds nothing
\* and nothing is open, and a close() that follows a close() changes neither
\* the fields nor any connection.
C10_CloseIdempotent ==
    /\ [](\A c \in ConnIds : closeCount[c] <= 1)
    /\ [](\A c \in ConnIds : closeCount[c] = 1 => c \notin open /\ c # conn)
    /\ []((pc = "ready" /\ lastCall = "close") =>
            conn = NilConn /\ client = "none" /\ stream = NoStream /\ open = {})
    /\ [][(pc = "ready" /\ lastCall = "close" /\ pc' = "ready" /\ lastCall' = "close")
            => UNCHANGED <<boState, connLog>>]_vars

\* close() has run after reconnects: one connection was released by an
\* attempt's teardown, a later one by close()
C10_Witness ==
    /\ pc = "ready"
    /\ lastCall = "close"
    /\ nextConn = 2
    /\ closeCount[1] = 1
    /\ closeCount[2] = 1

\* C11: the drain loop ends only on a terminal result and always on one: Run
\* has returned exactly when the last call returned terminal; a call that
\* returns a record sends the loop to its next call, a call that returns
\* terminal ends it, and once Run has returned no call is made any more.
C11_LoopEndsOnlyOnTerminal ==
    /\ [](pc = "done" <=> lastRet = "terminal")
    /\ [](lastRet = "record" => Len(delivered) >= 1 /\ pc \in InRun)
    /\ [][(pc = "ret" /\ pc' # "ret") =>
            IF scrapeRecord(wrapper, record) = NilRecord
              THEN pc' = "done" /\ delivered' = delivered
              ELSE pc' = "loop" /\ Len(delivered') = Len(delivered) + 1]_vars
    /\ [][(pc = "loop" /\ pc' # "loop") =>
            pc' \in {"recv", "attempt"} /\ ncalls' = ncalls + 1]_vars
    /\ [][pc = "done" => pc' = "done" /\ ncalls' = ncalls /\ dials' = dials]_vars

\* two calls returned records, the third returned terminal and Run returned
C11_Witness ==
    pc = "done" /\ ncalls = 3 /\ Len(delivered) = 2 /\ lastRet = "terminal"

\* C12: once a call has returned terminal because the retry driver was
\* exhausted, a further call on the same stream returns at once: it starts no
\* attempt and no read.
C12_TerminalIsPermanent ==
    [][(pc = "ready" /\ lastRet = "terminal" /\ boOk = "exhausted") =>
         pc' \in {"ready", "ret"}]_vars

\* C13: the client and the stream held are of the component's kind, every
\* record read or delivered is of that kind, and the kind never changes.
C13_OneKindOnly ==
    /\ [](client \in {"none", kind})
    /\ [](stream # NoStream => stream.kind = kind)
    /\ [](record.tag # "nil" => record.kind = kind)
    /\ [](\A i \in 1..Len(wire) : wire[i].kind = kind)
    /\ [](\A i \in 1..Len(delivered) : delivered[i].kind = kind /\ delivered[i].tag = "rec")
    /\ [](wrapper \in {"none", kind})
    /\ [][kind' = kind]_vars

\* a TiKV stream has delivered records from two connections
C13_Witness ==
    /\ kind = "TiKV"
    /\ Len(delivered) = 2
    /\ delivered[2].kind = "TiKV"
    /\ nextConn = 2
    /\ stream = [conn |-> 2, kind |-> "TiKV"]

\* C14: IsDown returns true exactly when the token has fired and changes
\* nothing else; the token, once fired, stays fired, whatever is called
\* afterwards, and firing it again changes nothing.
C14_IsDownIsTheToken ==
    /\ [](down = "true" => cancelled)
    /\ [][down' # down =>
            /\ down' = (IF cancelled THEN "true" ELSE "false")
            /\ UNCHANGED <<kind, cancelled, pc, wrapper, boState, connLog,
                           execState, history>>]_vars
    /\ [][cancelled => cancelled']_vars
    /\ [][(cancelled /\ down = "true") => down' = "true"]_vars

\* IsDown has returned true while Run was blocked in a read
C14_Witness ==
    down = "true" /\ cancelled /\ pc = "recv"

\* C15: a Scraper of an unrecognized kind never gets past the dispatch: Run
\* aborts there for good, and no stream, call, dial, attempt or wait exists.
C15_UnrecognizedKindAborts ==
    /\ [](kind \notin Recognized =>
            /\ pc \in {"idle", "panicked"}
            /\ ncalls = 0 /\ dials = 0 /\ waits = 0 /\ calls = <<>>
            /\ nextConn = 0 /\ conn = NilConn /\ client = "none" /\ stream = NoStream
            /\ ~ioAfterCancel)
    /\ [](pc = "panicked" => kind \notin Recognized)
    /\ [][pc = "panicked" => pc' = "panicked"]_vars

\* Run has aborted at the dispatch
C15_Witness ==
    pc = "panicked" /\ kind = "Other"

\* C16: when the read inside an attempt obtains a record, the retry driver
\* reports success and the call returns that very record to the drain loop;
\* at that return the stream holds the connection just dialed, open and not
\* failed, with the client and the stream of its kind.
C16_SuccessfulAttemptReturnsItsRecord ==
    /\ []((pc = "ret" /\ boOk = "success") =>
            /\ conn # NilConn /\ conn = nextConn /\ conn \in open /\ conn \notin failed
            /\ client = kind
            /\ stream = [conn |-> conn, kind |-> kind]
            /\ record.tag = "rec"
            /\ Len(wire) >= 1
            /\ record = wire[Len(wire)]
            /\ scrapeRecord(wrapper, record) = record)
    /\ [][(pc = "attemptRecv" /\ wire' # wire) =>
            /\ pc' = "ret"
            /\ boOk' = "success"
            /\ record' = wire'[Len(wire')]]_vars
    /\ [][(pc = "ret" /\ boOk = "success" /\ pc' # "ret") =>
            /\ pc' = "loop"
            /\ lastRet' = "record"
            /\ delivered' = Append(delivered, record)]_vars

\* attempt 0 failed and attempt 1 brought the second record of the wire
C16_Witness ==
    /\ pc = "ret"
    /\ boOk = "success"
    /\ retried = 1
    /\ Len(wire) = 2
    /\ record = wire[2]

\* C17: with the token not fired a call returns terminal only when the retry
\* driver is exhausted after all maxRetryTimes attempts of this call; an
\* attempt that fails with attempts remaining leads to a wait, never to a
\* return; every call that enters the reconnect path starts at attempt 0 and
\* its attempts are numbered 0, 1, 2, ... from there.
C17_BudgetPerCall ==
    /\ [](pc \in {"dial", "subscribe", "attemptRecv", "wait"} =>
            /\ Len(calls) = retried + 1
            /\ \A i \in 1..Len(calls) : calls[i] = i - 1)
    /\ []((pc = "ret" /\ ~cancelled /\ scrapeRecord(wrapper, record) = NilRecord) =>
            boOk = "exhausted" /\ Len(calls) = maxRetryTimes)
    /\ [][(pc \in {"loop", "recv"} /\ pc' = "attempt") =>
            retried' = 0 /\ calls' = <<>> /\ waits' = 0 /\ dials' = 0]_vars
    /\ [][(pc \in {"dial", "subscribe", "attemptRecv"} /\ retried + 1 < maxRetryTimes
              /\ pc' # pc) =>
            /\ pc' \in {"subscribe", "attemptRecv", "wait", "ret"}
            /\ pc' = "ret" => boOk' = "success"]_vars

\* the first call absorbed a read failure before it returned a record; the
\* second call lost its stream and its attempt 0 has just failed
C17_Witness ==
    /\ pc = "wait"
    /\ retried = 0
    /\ ncalls = 2
    /\ failed = {1, 2}
    /\ Len(delivered) = 1
    /\ ~cancelled

\* C18: a stream of an unrecognized kind never subscribes or reads; its
\* attempt reports success as soon as the dial succeeds, the retry driver
\* stops there, the call returns terminal, and the stream is left with an open
\* connection and neither client nor stream.
C18_UnrecognizedKindDialSucceeds ==
    /\ [](kind \notin Recognized =>
            /\ client = "none" /\ stream = NoStream
            /\ wire = <<>> /\ delivered = <<>>
            /\ record = NilRecord
            /\ lastRet # "record"
            /\ pc \notin {"subscribe", "attemptRecv", "recv"})
    /\ []((kind \notin Recognized /\ boOk = "success" /\ pc = "ret") =>
            conn # NilConn /\ conn = nextConn /\ conn \in open /\ Len(calls) = retried + 1)
    /\ []((kind \notin Recognized /\ boOk = "success" /\ pc = "ready"
              /\ lastCall = "scrape") =>
            lastRet = "terminal" /\ conn # NilConn /\ conn \in open)
    /\ [][(kind \notin Recognized /\ pc = "dial" /\ nextConn' # nextConn) =>
            pc' = "ret" /\ boOk' = "success" /\ calls' = calls]_vars

\* the first attempt dialed, the call returned terminal, the connection is
\* still open and held alone
C18_Witness ==
    /\ kind = "Other"
    /\ pc = "ready"
    /\ lastCall = "scrape"
    /\ lastRet = "terminal"
    /\ boOk = "success"
    /\ calls = <<0>>
    /\ conn = 1
    /\ open = {1}
    /\ client = "none"
    /\ stream = NoStream

\* C19: the connections open are exactly the one held in bo.conn, if any; an
\* attempt dials only with nothing held and nothing open; every connection
\* ever established is either the one held or has been closed.
C19_AtMostOneOpenConnection ==
    /\ Cardinality(open) <= 1
    /\ open = (IF conn = NilConn THEN {} ELSE {conn})
    /\ pc = "dial" => conn = NilConn /\ open = {}
    /\ \A c \in 1..nextConn : c \in open \/ closeCount[c] = 1

\* the second connection was recorded although its subscribe failed, and the
\* first had been closed before the second was dialed
C19_Witness ==
    /\ pc = "wait"
    /\ conn = 2
    /\ open = {2}
    /\ client # "none"
    /\ stream = NoStream
    /\ closeCount[1] = 1

\* C20: no step of Run fires the token: a step that fires it changes nothing
\* else, in particular not Run's position; after Run has returned with the
\* token not fired, IsDown returns false.
C20_RunEndDoesNotCancel ==
    /\ [][cancelled' # cancelled =>
            /\ pc' = pc
            /\ UNCHANGED <<kind, wrapper, boState, connLog, execState, history, down>>]_vars
    /\ [][(pc = "done" /\ ~cancelled /\ down' # down) => down' = "false"]_vars
    /\ []((pc = "done" /\ ~cancelled) => down # "true")

\* Run returned for exhaustion, the token has not fired, IsDown said false
C20_Witness ==
    pc = "done" /\ boOk = "exhausted" /\ ~cancelled /\ down = "false"

====
